---- MODULE Spec2Model ----
(***************************************************************************)
(* Model of the T-Bank statement converter (tbank_converter): the          *)
(* paired-transfer merger (domain/transform.py), the double-entry          *)
(* categorizer (domain/categorization.py) and the conversion pipeline      *)
(* that runs one after the other (pipeline.py).                            *)
(*                                                                         *)
(* Text: the source matches descriptions with Python's `in` and            *)
(* str.lower().  Strings are modelled as TLA+ strings, lower-cased         *)
(* character by character and searched position by position.  The          *)
(* Cyrillic literals of the source are written in Latin transliteration    *)
(* ("между своими счетами" is "mezhdu svoimi schetami").                   *)
(*                                                                         *)
(* Amounts are integers (Decimal in the source; only sign, equality and    *)
(* abs() are used), timestamps are integer seconds.                        *)
(***************************************************************************)
EXTENDS Integers, Sequences, FiniteSets, TLC

VARIABLES
    config,      \* the Config the pipeline was built with
    input,       \* the parsed operations handed to the pipeline
    operations,  \* the pipeline's current list of operations
    pairs,       \* for each merged-list entry, the input rows it came from
    merged,      \* the list as merge_paired_transfers returned it
    first,       \* the list as the first apply_double_entry pass left it
    pc,          \* position in the pipeline
    data,        \* the keyword arguments the Config is built from
    error,       \* the exception that ended the run, "" when there is none
    report,      \* the Report built from the classified operations
    temp_files,  \* the bot: the paths that exist in TEMP_DIR
    fsm,         \* the bot: each user's FSM state and stored data
    documents,   \* the bot: each user's running handle_document call
    callbacks,   \* the bot: each user's running process_config_selection call
    sent         \* the bot: the number of documents received so far

vars == <<config, input, operations, pairs, merged, first, pc, data, error,
          report, temp_files, fsm, documents, callbacks, sent>>

\* the state of the Telegram bot
botVars == <<temp_files, fsm, documents, callbacks, sent>>
\* the state of one conversion
runVars == <<config, input, operations, pairs, merged, first, pc, data, error, report>>

(***************************************************************************)
(* Bounds of the model.                                                    *)
(***************************************************************************)
\* number of rows of a long statement
MaxRows == 11
\* most own-account-transfer rows in a long statement
MaxMarked == 3
\* most records of a list a Report is built from directly
MaxReportRows == 3
\* most document messages the bot receives
MaxDocuments == 3

(***************************************************************************)
(* Program constants.                                                      *)
(***************************************************************************)
\* range(i + 1, min(i + 10, len(operations)))
Lookahead == 10
\* abs(total_seconds()) <= 5
MaxGapSeconds == 5

(***************************************************************************)
(* Text helpers: str.lower() and the `in` substring test.                  *)
(***************************************************************************)
UpperLetters == <<"A","B","C","D","E","F","G","H","I","J","K","L","M",
                  "N","O","P","Q","R","S","T","U","V","W","X","Y","Z">>
LowerLetters == <<"a","b","c","d","e","f","g","h","i","j","k","l","m",
                  "n","o","p","q","r","s","t","u","v","w","x","y","z">>

LowerChar(c) ==
    IF \E k \in 1..Len(UpperLetters) : UpperLetters[k] = c
    THEN LowerLetters[CHOOSE k \in 1..Len(UpperLetters) : UpperLetters[k] = c]
    ELSE c

\* s.lower(), as the sequence of its characters
Lower(s) == [k \in 1..Len(s) |-> LowerChar(SubSeq(s, k, k))]

\* needle in haystack, both sequences of characters
IsSubstring(needle, haystack) ==
    \E k \in 1..(Len(haystack) - Len(needle) + 1) :
        \A m \in 1..Len(needle) : haystack[k + m - 1] = needle[m]

\* the descriptions of the modelled statements
Descriptions ==
    { "Mezhdu svoimi schetami", "Perevod MEZHDU SVOIMI SCHETAMI",
      "Pyaterochka", "PYATEROCHKA Moskva", "Zarplata",
      "Popolnenie brokerskogo scheta", "Test" }

\* the keys of the modelled substring mappings
MappingKeys ==
    { "Pyaterochka", "pyater", "moskva", "pyaterochka", "zarp", "Zarplata",
      "broker", "Brokerskogo", "svoimi", "mezhdu", "schetami" }

\* str.lower() of every modelled text, computed once
LowerOf == [s \in Descriptions \cup MappingKeys |-> Lower(s)]

\* key.lower() in description.lower()
KeyInDescription(key, description) == IsSubstring(LowerOf[key], LowerOf[description])

\* the literal "между своими счетами"
TransferMarker == "mezhdu svoimi schetami"
TransferMarkerChars == [k \in 1..Len(TransferMarker) |-> SubSeq(TransferMarker, k, k)]

\* "между своими счетами" in description.lower(), for every modelled description
OwnTransferOf == [d \in Descriptions |-> IsSubstring(TransferMarkerChars, LowerOf[d])]

IsOwnTransfer(description) == OwnTransferOf[description]

Abs(n) == IF n < 0 THEN -n ELSE n
Min(a, b) == IF a < b THEN a ELSE b

(***************************************************************************)
(* Operation (domain/models.py).  `other` stands for the ten columns the   *)
(* merger and the categorizer only copy (payment_date, status, currencies, *)
(* payment_amount, cashback, mcc, bonus_count, investment_amount,          *)
(* total_payment_amount); it holds the number of the CSV row they were     *)
(* read from, so that a copy can be traced to its row.                     *)
(***************************************************************************)
\* the double-entry fields of a freshly parsed operation
DoubleEntryDefaults ==
    [debit_account |-> "", credit_account |-> "",
     category |-> "", subcategory |-> "", comment |-> ""]

Operation(date, card, amount, bank, desc, row) ==
    [operation_date |-> date, card_number |-> card, operation_amount |-> amount,
     bank_category |-> bank, description |-> desc, other |-> row]
    @@ DoubleEntryDefaults

(***************************************************************************)
(* DataTransformer.merge_paired_transfers (domain/transform.py).           *)
(***************************************************************************)
\* IsPartner with the time test written < instead of <=
IsPartner_StrictGap(op, other) ==
    /\ IsOwnTransfer(other.description)
    /\ Abs(op.operation_amount) = Abs(other.operation_amount)
    /\ op.operation_amount # other.operation_amount
    /\ Abs(other.operation_date - op.operation_date) < MaxGapSeconds

\* the test of lines 154-163: `other` is a partner of `op`
IsPartner(op, other) ==
    /\ IsOwnTransfer(other.description)
    /\ Abs(op.operation_amount) = Abs(other.operation_amount)
    /\ op.operation_amount # other.operation_amount
    /\ Abs(other.operation_date - op.operation_date) <= MaxGapSeconds

\* WindowEnd with the window one row shorter
WindowEnd_OneShorter(ops, i) == Min(i + Lookahead - 2, Len(ops))

\* WindowEnd with the window one row longer
WindowEnd_OneFurther(ops, i) == Min(i + Lookahead, Len(ops))

\* last index (1-based) the inner loop visits for the row at index i
WindowEnd(ops, i) == Min(i + Lookahead - 1, Len(ops))

\* FindPartner without the test `if j in skip_indices: continue`
RECURSIVE FindPartner_IgnoreSkip(_, _, _, _)
FindPartner_IgnoreSkip(ops, i, j, skip) ==
    IF j > WindowEnd(ops, i) THEN 0
    ELSE IF IsPartner(ops[i], ops[j]) THEN j
    ELSE FindPartner_IgnoreSkip(ops, i, j + 1, skip)

\* FindPartner scanning the whole window and keeping the last hit
RECURSIVE FindPartner_LastHit(_, _, _, _)
FindPartner_LastHit(ops, i, j, skip) ==
    IF j > WindowEnd(ops, i) THEN 0
    ELSE LET later == FindPartner_LastHit(ops, i, j + 1, skip)
         IN  IF later # 0 THEN later
             ELSE IF j \notin skip /\ IsPartner(ops[i], ops[j]) THEN j
             ELSE 0

\* the inner loop: the first index from j on, inside the window of i, that is
\* not skipped and holds a partner of ops[i]; 0 when the loop ends without break
RECURSIVE FindPartner(_, _, _, _)
FindPartner(ops, i, j, skip) ==
    IF j > WindowEnd(ops, i) THEN 0
    ELSE IF j \notin skip /\ IsPartner(ops[i], ops[j]) THEN j
    ELSE FindPartner(ops, i, j + 1, skip)

\* MergedOperation with the two account fields exchanged
MergedOperation_SwappedLegs(op, other) ==
    LET leaving  == IF op.operation_amount < 0 THEN op ELSE other
        entering == IF op.operation_amount < 0 THEN other ELSE op
    IN  [operation_date |-> op.operation_date,
         card_number |-> op.card_number,
         operation_amount |-> Abs(op.operation_amount),
         bank_category |-> op.bank_category,
         description |-> op.description,
         other |-> op.other,
         debit_account |-> leaving.card_number,
         credit_account |-> entering.card_number,
         category |-> "", subcategory |-> "", comment |-> ""]

\* MergedOperation keeping the signed amount of the earlier leg
MergedOperation_SignedAmount(op, other) ==
    LET leaving  == IF op.operation_amount < 0 THEN op ELSE other
        entering == IF op.operation_amount < 0 THEN other ELSE op
    IN  [operation_date |-> op.operation_date,
         card_number |-> op.card_number,
         operation_amount |-> op.operation_amount,
         bank_category |-> op.bank_category,
         description |-> op.description,
         other |-> op.other,
         debit_account |-> entering.card_number,
         credit_account |-> leaving.card_number,
         category |-> "", subcategory |-> "", comment |-> ""]

\* the Operation(...) built at lines 164-188
MergedOperation(op, other) ==
    LET leaving  == IF op.operation_amount < 0 THEN op ELSE other
        entering == IF op.operation_amount < 0 THEN other ELSE op
    IN  [operation_date |-> op.operation_date,
         card_number |-> op.card_number,
         operation_amount |-> Abs(op.operation_amount),
         bank_category |-> op.bank_category,
         description |-> op.description,
         other |-> op.other,
         debit_account |-> entering.card_number,
         credit_account |-> leaving.card_number,
         category |-> "", subcategory |-> "", comment |-> ""]

\* MergeLoop without the else branch of the inner for: a marked row that finds
\* no partner is not appended
RECURSIVE MergeLoop_DropUnpaired(_, _, _, _, _)
MergeLoop_DropUnpaired(ops, i, skip, out, from) ==
    IF i > Len(ops) THEN [out |-> out, from |-> from]
    ELSE IF i \in skip THEN MergeLoop_DropUnpaired(ops, i + 1, skip, out, from)
    ELSE IF IsOwnTransfer(ops[i].description)
         THEN LET j == FindPartner(ops, i, i + 1, skip)
              IN  IF j # 0
                  THEN MergeLoop_DropUnpaired(ops, i + 1, skip \cup {j},
                                 Append(out, MergedOperation(ops[i], ops[j])),
                                 Append(from, <<i, j>>))
                  ELSE MergeLoop_DropUnpaired(ops, i + 1, skip, out, from)
         ELSE MergeLoop_DropUnpaired(ops, i + 1, skip, Append(out, ops[i]),
                                     Append(from, <<i>>))

\* MergeLoop inserting each record at the front of `merged` instead of
\* appending it
RECURSIVE MergeLoop_InsertFront(_, _, _, _, _)
MergeLoop_InsertFront(ops, i, skip, out, from) ==
    IF i > Len(ops) THEN [out |-> out, from |-> from]
    ELSE IF i \in skip THEN MergeLoop_InsertFront(ops, i + 1, skip, out, from)
    ELSE IF IsOwnTransfer(ops[i].description)
         THEN LET j == FindPartner(ops, i, i + 1, skip)
              IN  IF j # 0
                  THEN MergeLoop_InsertFront(ops, i + 1, skip \cup {j},
                                 <<MergedOperation(ops[i], ops[j])>> \o out,
                                 << <<i, j>> >> \o from)
                  ELSE MergeLoop_InsertFront(ops, i + 1, skip, <<ops[i]>> \o out,
                                 << <<i>> >> \o from)
         ELSE MergeLoop_InsertFront(ops, i + 1, skip, <<ops[i]>> \o out,
                                    << <<i>> >> \o from)

\* the outer loop from index i on; `out` is the list `merged` built so far and
\* `from` records, for each of its entries, the input indices it was built from
RECURSIVE MergeLoop(_, _, _, _, _)
MergeLoop(ops, i, skip, out, from) ==
    IF i > Len(ops) THEN [out |-> out, from |-> from]
    ELSE IF i \in skip THEN MergeLoop(ops, i + 1, skip, out, from)
    ELSE IF IsOwnTransfer(ops[i].description)
         THEN LET j == FindPartner(ops, i, i + 1, skip)
              IN  IF j # 0
                  THEN MergeLoop(ops, i + 1, skip \cup {j},
                                 Append(out, MergedOperation(ops[i], ops[j])),
                                 Append(from, <<i, j>>))
                  ELSE MergeLoop(ops, i + 1, skip, Append(out, ops[i]),
                                 Append(from, <<i>>))
         ELSE MergeLoop(ops, i + 1, skip, Append(out, ops[i]), Append(from, <<i>>))

MergePairedTransfers(ops) == MergeLoop(ops, 1, {}, <<>>, <<>>)

(***************************************************************************)
(* Config (config.py).  A dict that is only looked up by key is a          *)
(* function; a dict that is iterated (.items()) is the sequence of its     *)
(* <<key, value>> entries in insertion order, keys distinct.  A value of   *)
(* bank_category_mapping is a str or a BankCategoryMapping.                *)
(***************************************************************************)
\* a bank_category_mapping value that is a plain string
CategoryOnly(cat) == [is_str |-> TRUE, category |-> cat, subcategory |-> ""]
\* a bank_category_mapping value that is a BankCategoryMapping
BankCategoryMapping(cat, sub) == [is_str |-> FALSE, category |-> cat, subcategory |-> sub]

\* Settings and ServiceAccounts with their default values
Settings ==
    [uncategorized_label |-> "prochee",
     default_account |-> "Schet Tbanka",
     service_accounts |-> [income |-> "dokhody", expense |-> "raskhody"]]

(***************************************************************************)
(* Categorizer (domain/categorization.py).                                 *)
(***************************************************************************)
\* the loops `for key, value in mapping.items(): if key.lower() in desc_lower`:
\* the index of the first entry from k on whose key matches, 0 when none does
RECURSIVE FirstMatch(_, _, _)
FirstMatch(mapping, description, k) ==
    IF k > Len(mapping) THEN 0
    ELSE IF KeyInDescription(mapping[k][1], description) THEN k
    ELSE FirstMatch(mapping, description, k + 1)

\* the value the loop returns, "" when it falls through
FirstMatchValue(mapping, description) ==
    LET k == FirstMatch(mapping, description, 1)
    IN  IF k = 0 THEN "" ELSE mapping[k][2]

\* `description in mapping` and `mapping[description]` on an iterated dict
HasKey(mapping, key) == \E k \in 1..Len(mapping) : mapping[k][1] = key
ValueOf(mapping, key) == mapping[CHOOSE k \in 1..Len(mapping) : mapping[k][1] = key][2]

ResolveAccountName(cfg, raw_name) ==
    IF raw_name \in DOMAIN cfg.account_mappings
    THEN cfg.account_mappings[raw_name]
    ELSE raw_name

MatchesTransferMapping(cfg, description) ==
    \E k \in 1..Len(cfg.transfer_account_mapping) :
        KeyInDescription(cfg.transfer_account_mapping[k][1], description)

GetTransferTarget(cfg, description) ==
    FirstMatchValue(cfg.transfer_account_mapping, description)

\* GetIncomeCategory falling back to the uncategorized label, as expenses do
GetIncomeCategory_Uncategorized(cfg, op) ==
    IF FirstMatch(cfg.income_description_mapping, op.description, 1) = 0
    THEN cfg.settings.uncategorized_label
    ELSE FirstMatchValue(cfg.income_description_mapping, op.description)

GetIncomeCategory(cfg, op) ==
    FirstMatchValue(cfg.income_description_mapping, op.description)

\* GetCategory without the exact-match tier
GetCategory_NoExactTier(cfg, op) ==
    IF FirstMatch(cfg.description_mapping, op.description, 1) # 0
    THEN <<FirstMatchValue(cfg.description_mapping, op.description), "">>
    ELSE IF op.bank_category # "" /\ op.bank_category \in DOMAIN cfg.bank_category_mapping
    THEN LET mapping == cfg.bank_category_mapping[op.bank_category]
         IN  IF mapping.is_str THEN <<mapping.category, "">>
             ELSE <<mapping.category, mapping.subcategory>>
    ELSE <<cfg.settings.uncategorized_label, "">>

\* GetCategory whose last tier returns the empty string
GetCategory_EmptyFallback(cfg, op) ==
    IF HasKey(cfg.description_mapping, op.description)
    THEN <<ValueOf(cfg.description_mapping, op.description), "">>
    ELSE IF FirstMatch(cfg.description_mapping, op.description, 1) # 0
    THEN <<FirstMatchValue(cfg.description_mapping, op.description), "">>
    ELSE IF op.bank_category # "" /\ op.bank_category \in DOMAIN cfg.bank_category_mapping
    THEN LET mapping == cfg.bank_category_mapping[op.bank_category]
         IN  IF mapping.is_str THEN <<mapping.category, "">>
             ELSE <<mapping.category, mapping.subcategory>>
    ELSE <<"", "">>

\* returns <<category, bank_subcategory>>
GetCategory(cfg, op) ==
    IF HasKey(cfg.description_mapping, op.description)
    THEN <<ValueOf(cfg.description_mapping, op.description), "">>
    ELSE IF FirstMatch(cfg.description_mapping, op.description, 1) # 0
    THEN <<FirstMatchValue(cfg.description_mapping, op.description), "">>
    ELSE IF op.bank_category # "" /\ op.bank_category \in DOMAIN cfg.bank_category_mapping
    THEN LET mapping == cfg.bank_category_mapping[op.bank_category]
         IN  IF mapping.is_str THEN <<mapping.category, "">>
             ELSE <<mapping.category, mapping.subcategory>>
    ELSE <<cfg.settings.uncategorized_label, "">>

\* GetSubcategory consulting the subcategory mapping before bank_subcategory
GetSubcategory_MappingFirst(cfg, op, bank_subcategory) ==
    IF FirstMatch(cfg.subcategory_mappings, op.description, 1) # 0
    THEN FirstMatchValue(cfg.subcategory_mappings, op.description)
    ELSE bank_subcategory

GetSubcategory(cfg, op, bank_subcategory) ==
    IF bank_subcategory # "" THEN bank_subcategory
    ELSE FirstMatchValue(cfg.subcategory_mappings, op.description)

\* IsTransfer looking for the marker phrase only
IsTransfer_MarkerOnly(cfg, op) == IsOwnTransfer(op.description)

\* lines 55-60
IsTransfer(cfg, op) ==
    IsOwnTransfer(op.description) \/ MatchesTransferMapping(cfg, op.description)
IsExpense(cfg, op) == op.operation_amount < 0 /\ ~IsTransfer(cfg, op)
IsIncome(cfg, op) == op.operation_amount > 0 /\ ~IsTransfer(cfg, op)

\* AccountName without the raw-token tier
AccountName_NoRawToken(cfg, op) ==
    IF op.card_number \in DOMAIN cfg.account_mappings
    THEN cfg.account_mappings[op.card_number]
    ELSE cfg.settings.default_account

\* lines 64-70
AccountName(cfg, op) ==
    IF op.card_number \in DOMAIN cfg.account_mappings
    THEN cfg.account_mappings[op.card_number]
    ELSE IF op.card_number # "" THEN op.card_number
    ELSE cfg.settings.default_account

\* lines 46-52: the branch taken for a merged transfer
IsPreMerged(op) == op.debit_account # "" /\ op.credit_account # ""

\* ResolveMerged writing each resolved name to the opposite field
ResolveMerged_SwappedLegs(cfg, op) ==
    [op EXCEPT !.debit_account = ResolveAccountName(cfg, op.credit_account),
               !.credit_account = ResolveAccountName(cfg, op.debit_account),
               !.category = "", !.subcategory = "", !.comment = ""]

ResolveMerged(cfg, op) ==
    [op EXCEPT !.debit_account = ResolveAccountName(cfg, op.debit_account),
               !.credit_account = ResolveAccountName(cfg, op.credit_account),
               !.category = "", !.subcategory = "", !.comment = ""]

\* ApplyExpense with the two account fields exchanged
ApplyExpense_SwappedLegs(cfg, op) ==
    LET found == GetCategory(cfg, op)
    IN  [op EXCEPT !.debit_account = AccountName(cfg, op),
                   !.credit_account = cfg.settings.service_accounts.expense,
                   !.category = found[1],
                   !.subcategory = GetSubcategory(cfg, op, found[2]),
                   !.comment = ""]

\* lines 73-79
ApplyExpense(cfg, op) ==
    LET found == GetCategory(cfg, op)
    IN  [op EXCEPT !.debit_account = cfg.settings.service_accounts.expense,
                   !.credit_account = AccountName(cfg, op),
                   !.category = found[1],
                   !.subcategory = GetSubcategory(cfg, op, found[2]),
                   !.comment = ""]

\* lines 81-86
ApplyIncome(cfg, op) ==
    [op EXCEPT !.debit_account = AccountName(cfg, op),
               !.credit_account = cfg.settings.service_accounts.income,
               !.category = GetIncomeCategory(cfg, op),
               !.subcategory = "",
               !.comment = ""]

\* ApplyTransfer that does not look at the sign of the amount
ApplyTransfer_IgnoreSign(cfg, op) ==
    [op EXCEPT !.debit_account = GetTransferTarget(cfg, op.description),
               !.credit_account = AccountName(cfg, op),
               !.category = "", !.subcategory = "", !.comment = ""]

\* lines 88-101
ApplyTransfer(cfg, op) ==
    LET target == GetTransferTarget(cfg, op.description)
    IN  IF op.operation_amount < 0
        THEN [op EXCEPT !.debit_account = target,
                        !.credit_account = AccountName(cfg, op),
                        !.category = "", !.subcategory = "", !.comment = ""]
        ELSE [op EXCEPT !.debit_account = AccountName(cfg, op),
                        !.credit_account = target,
                        !.category = "", !.subcategory = "", !.comment = ""]

\* ClassifyOperation without the branch for merged transfers
ClassifyOperation_NoMergedBranch(cfg, op) ==
    IF IsExpense(cfg, op) THEN ApplyExpense(cfg, op)
    ELSE IF IsIncome(cfg, op) THEN ApplyIncome(cfg, op)
    ELSE IF IsTransfer(cfg, op) THEN ApplyTransfer(cfg, op)
    ELSE [op EXCEPT !.comment = ""]

\* one iteration of the loop of apply_double_entry
ClassifyOperation(cfg, op) ==
    IF IsPreMerged(op) THEN ResolveMerged(cfg, op)
    ELSE IF IsExpense(cfg, op) THEN ApplyExpense(cfg, op)
    ELSE IF IsIncome(cfg, op) THEN ApplyIncome(cfg, op)
    ELSE IF IsTransfer(cfg, op) THEN ApplyTransfer(cfg, op)
    ELSE [op EXCEPT !.comment = ""]

ApplyDoubleEntry(cfg, ops) == [k \in 1..Len(ops) |-> ClassifyOperation(cfg, ops[k])]

(***************************************************************************)
(* The Telegram bot (tg_bot/main.py) keeps, for each user, an FSM state    *)
(* with stored data, and files in TEMP_DIR.                                *)
(***************************************************************************)
\* the users that write to the bot
Users == {1, 2, 3}

\* user_data.get("input_path") when no path is stored
NoPath == [user |-> 0, stem |-> "", suffix |-> ""]

\* state.clear(): no state, no data
ClearedState == [state |-> "None", input_path |-> NoPath]

\* no handler call is running
Idle == [pc |-> "idle"]

\* no report is built and the bot is at rest
NoReport == [built |-> FALSE]
NoReportNoBot ==
    /\ report = NoReport
    /\ temp_files = {}
    /\ fsm = [u \in Users |-> ClearedState]
    /\ documents = [u \in Users |-> Idle]
    /\ callbacks = [u \in Users |-> Idle]
    /\ sent = 0

(***************************************************************************)
(* Inputs: the configurations and the statements the pipeline is run on.   *)
(***************************************************************************)
AccountMappingChoices ==
    { <<>>,
      [t \in {"*1"} |-> "Nakopitelny schet"],
      [t \in {"*1", "*2"} |-> IF t = "*1" THEN "*2" ELSE "Nakopitelny schet"],
      [t \in {"*2"} |-> ""] }

DescriptionMappingChoices ==
    { <<>>,
      << <<"Pyaterochka", "produkty">> >>,
      << <<"pyater", "eda">>, <<"Pyaterochka", "produkty">> >> }

BankCategoryMappingChoices ==
    { <<>>,
      [b \in {"Supermarkety"} |-> CategoryOnly("magaziny")],
      [b \in {"Supermarkety"} |-> BankCategoryMapping("magaziny", "supermarket")],
      [b \in {"Supermarkety"} |-> BankCategoryMapping("magaziny", "")] }

SubcategoryMappingChoices ==
    { <<>>, << <<"moskva", "stolitsa">>, <<"pyaterochka", "u doma">> >> }

IncomeMappingChoices ==
    { <<>>, << <<"zarp", "zarplata">>, <<"Zarplata", "premiya">> >> }

TransferMappingChoices ==
    { <<>>, << <<"broker", "TInvestitsii">>, <<"Brokerskogo", "IIS">> >> }

\* a category list naming every category the modelled mappings map to
ListedCategories ==
    <<"produkty", "eda", "magaziny", "zarplata", "premiya", "prochee">>

MakeConfig(accounts, descriptions, banks, subs, incomes, transfers) ==
    [settings |-> Settings,
     categories |-> ListedCategories,
     account_mappings |-> accounts,
     description_mapping |-> descriptions,
     bank_category_mapping |-> banks,
     subcategory_mappings |-> subs,
     income_description_mapping |-> incomes,
     transfer_account_mapping |-> transfers]

\* the income and the transfer mapping, both empty or both filled
IncomeTransferChoices ==
    { <<x, y>> \in IncomeMappingChoices \X TransferMappingChoices : (x = <<>>) <=> (y = <<>>) }

\* the configurations single-row statements are classified under
Configs ==
    { MakeConfig(a, d, b, s, it[1], it[2]) :
        a \in AccountMappingChoices, d \in DescriptionMappingChoices,
        b \in BankCategoryMappingChoices, s \in SubcategoryMappingChoices,
        it \in IncomeTransferChoices }

\* a configuration whose every mapping has a key found in the transfer marker
MarkerConfig(accounts) ==
    MakeConfig(accounts, << <<"svoimi", "produkty">> >>,
               [b \in {"Supermarkety"} |-> CategoryOnly("magaziny")],
               << <<"mezhdu", "u doma">> >>,
               << <<"schetami", "zarplata">> >>,
               << <<"broker", "TInvestitsii">> >>)

\* the configurations two-row statements are run under: no mapping at all, and
\* every account mapping together with mappings that match the marker
PairConfigs ==
    { MakeConfig(<<>>, <<>>, <<>>, <<>>, <<>>, <<>>),
      MarkerConfig([t \in {"*2"} |-> Settings.service_accounts.expense]) }
    \cup { MarkerConfig(a) : a \in AccountMappingChoices \ { <<>> } }

\* the configurations long statements are run under
LongConfigs ==
    { MakeConfig(<<>>, <<>>, <<>>, <<>>, <<>>, <<>>),
      MakeConfig([t \in {"*1"} |-> "Nakopitelny schet"], <<>>, <<>>, <<>>, <<>>, <<>>) }

CardNumbers == {"", "*1", "*2"}
BankCategories == {"", "Supermarkety"}
SingleAmounts == {-1, 0, 1}

\* statements of one row: every kind of operation the categorizer tells apart
IsSingleStatement(rows) ==
    \E c \in CardNumbers, a \in SingleAmounts, b \in BankCategories, d \in Descriptions :
        rows = << Operation(0, c, a, b, d, 1) >>

PairDescriptions ==
    { "Mezhdu svoimi schetami", "Perevod MEZHDU SVOIMI SCHETAMI", "Pyaterochka" }
PairAmounts == {-1, 0, 1, 2}
PairDates == {0, MaxGapSeconds, MaxGapSeconds + 1}
PairRows(row) ==
    { Operation(t, c, a, "Supermarkety", d, row) :
        t \in PairDates, c \in CardNumbers, a \in PairAmounts, d \in PairDescriptions }

\* statements of two rows: every combination of marker, amount, time and card
IsPairStatement(rows) ==
    \E x \in PairRows(1), y \in PairRows(2) : rows = <<x, y>>

\* a row of a long statement: a purchase, the leaving leg of a transfer, or
\* the entering leg
LongRow(kind, row) ==
    CASE kind = "N" -> Operation(0, "*1", -1, "", "Mezhdu svoimi schetami", row)
      [] kind = "P" -> Operation(0, "*2", 1, "", "Mezhdu svoimi schetami", row)
      [] OTHER      -> Operation(0, "*1", -1, "Supermarkety", "Pyaterochka", row)

\* statements of MaxRows rows of which at most MaxMarked are transfer legs
IsLongStatement(rows) ==
    \E S \in { T \in SUBSET (1..MaxRows) : Cardinality(T) <= MaxMarked } :
        \E legs \in [S -> {"N", "P"}] :
            rows = [k \in 1..MaxRows |-> LongRow(IF k \in S THEN legs[k] ELSE "F", k)]

(***************************************************************************)
(* The pipeline (pipeline.py, ConversionPipeline.run): merge, then         *)
(* classify; a further classification pass models calling                  *)
(* apply_double_entry on its own result.                                   *)
(***************************************************************************)
Init ==
    /\ \/ IsSingleStatement(input) /\ config \in Configs
       \/ IsPairStatement(input) /\ config \in PairConfigs
       \/ IsLongStatement(input) /\ config \in LongConfigs
    /\ operations = input
    /\ pairs = <<>>
    /\ merged = <<>>
    /\ first = <<>>
    /\ pc = "parsed"
    /\ data = config
    /\ error = ""
    /\ NoReportNoBot

\* Step 3: operations = self.transformer.merge_paired_transfers(operations)
Merge ==
    /\ pc = "parsed"
    /\ LET result == MergePairedTransfers(operations)
       IN  /\ operations' = result.out
           /\ merged' = result.out
           /\ pairs' = result.from
    /\ pc' = "merged"
    /\ UNCHANGED <<config, input, first, data, error>>
    /\ UNCHANGED <<report, botVars>>

\* Classify taken straight after parsing, before the merge
Classify_BeforeMerge ==
    /\ pc = "parsed"
    /\ operations' = ApplyDoubleEntry(config, operations)
    /\ first' = operations'
    /\ pc' = "classified"
    /\ UNCHANGED <<config, input, pairs, merged, data, error>>
    /\ UNCHANGED <<report, botVars>>

\* Step 4: operations = self.categorizer.apply_double_entry(operations)
Classify ==
    /\ pc = "merged"
    /\ operations' = ApplyDoubleEntry(config, operations)
    /\ first' = operations'
    /\ pc' = "classified"
    /\ UNCHANGED <<config, input, pairs, merged, data, error>>
    /\ UNCHANGED <<report, botVars>>

\* apply_double_entry called again on the list it returned
ClassifyAgain ==
    /\ pc = "classified"
    /\ operations' = ApplyDoubleEntry(config, operations)
    /\ pc' = "reclassified"
    /\ UNCHANGED <<config, input, pairs, merged, first, data, error>>
    /\ UNCHANGED <<report, botVars>>

Next == Merge \/ Classify \/ ClassifyAgain

Spec == Init /\ [][Next]_vars

(***************************************************************************)
(* The pipeline on statements of one row, under every configuration.       *)
(***************************************************************************)
\* configurations whose account mapping gives a card the name of a service
\* account
ServiceAliasConfigs ==
    { MakeConfig([t \in {"*2"} |-> Settings.service_accounts.expense],
                 <<>>, <<>>, <<>>, it[1], it[2]) : it \in IncomeTransferChoices }

SingleInit ==
    /\ IsSingleStatement(input)
    /\ config \in Configs \cup ServiceAliasConfigs
    /\ operations = input
    /\ pairs = <<>>
    /\ merged = <<>>
    /\ first = <<>>
    /\ pc = "parsed"
    /\ data = config
    /\ error = ""
    /\ NoReportNoBot

SingleSpec == SingleInit /\ [][Next]_vars

(***************************************************************************)
(* convert (pipeline.py): the Config is built from `data` and validated   *)
(* (config.py), then the pipeline runs.  A ValueError raised by the        *)
(* validator, or the ValidationError of a field constraint (a ValueError), *)
(* ends the run before the pipeline exists.                                *)
(***************************************************************************)
\* the elements of a list
Range(seq) == { seq[k] : k \in 1..Len(seq) }

\* validate_mappings checking description_mapping only
ValidateMappings_DescriptionOnly(cfg) ==
    \A n \in 1..Len(cfg.description_mapping) :
        cfg.description_mapping[n][2] \in Range(cfg.categories)

\* Config.validate_mappings returns self (TRUE) or raises ValueError (FALSE)
ValidateMappings(cfg) ==
    /\ \A n \in 1..Len(cfg.description_mapping) :
           cfg.description_mapping[n][2] \in Range(cfg.categories)
    /\ \A b \in DOMAIN cfg.bank_category_mapping :
           cfg.bank_category_mapping[b].category \in Range(cfg.categories)

\* categories: list[str] = Field(min_length=1)
CategoriesMinLength == 1

\* building the Config from the data succeeds
ConfigBuilds(cfg) ==
    /\ Len(cfg.categories) >= CategoriesMinLength
    /\ ValidateMappings(cfg)

\* the category lists configurations are loaded with
CategoryListChoices ==
    { ListedCategories,
      <<"produkty", "eda", "magaziny", "prochee">>,
      <<"produkty", "magaziny", "zarplata", "premiya", "prochee">>,
      <<"produkty", "eda", "zarplata", "premiya", "prochee">>,
      <<"prochee">>,
      <<>> }

\* the keyword arguments configurations are loaded from
IsConfigData(d) ==
    \E cfg \in Configs, cats \in CategoryListChoices :
        d = [cfg EXCEPT !.categories = cats]

\* the statements a loaded configuration is run on
IsLoadStatement(rows) ==
    \E a \in {-1, 1}, d \in {"Pyaterochka", "Zarplata"} :
        rows = << Operation(0, "*1", a, "Supermarkety", d, 1) >>

NoConfig == [settings |-> Settings]

LoadInit ==
    /\ IsConfigData(data)
    /\ IsLoadStatement(input)
    /\ config = NoConfig
    /\ operations = <<>>
    /\ pairs = <<>>
    /\ merged = <<>>
    /\ first = <<>>
    /\ pc = "loading"
    /\ error = ""
    /\ NoReportNoBot

\* config = load_config(config_path); pipeline = ConversionPipeline(config);
\* steps 1-2 of run
LoadConfig ==
    /\ pc = "loading"
    /\ ConfigBuilds(data)
    /\ config' = data
    /\ operations' = input
    /\ pc' = "parsed"
    /\ UNCHANGED <<input, pairs, merged, first, data, error>>
    /\ UNCHANGED <<report, botVars>>

\* building the Config from the data raises
RejectConfig ==
    /\ pc = "loading"
    /\ ~ConfigBuilds(data)
    /\ error' = "ValueError"
    /\ pc' = "config_error"
    /\ UNCHANGED <<config, input, operations, pairs, merged, first, data>>
    /\ UNCHANGED <<report, botVars>>

LoadNext == LoadConfig \/ RejectConfig \/ Merge \/ Classify

LoadSpec == LoadInit /\ [][LoadNext]_vars

(***************************************************************************)
(* merge_paired_transfers called again on the list it returned.            *)
(***************************************************************************)
RoundTripInit ==
    /\ IsPairStatement(input) \/ IsLongStatement(input)
    /\ config = MakeConfig(<<>>, <<>>, <<>>, <<>>, <<>>, <<>>)
    /\ operations = input
    /\ pairs = <<>>
    /\ merged = <<>>
    /\ first = <<>>
    /\ pc = "parsed"
    /\ data = config
    /\ error = ""
    /\ NoReportNoBot

MergeAgain ==
    /\ pc = "merged"
    /\ operations' = MergePairedTransfers(operations).out
    /\ pc' = "remerged"
    /\ UNCHANGED <<config, input, pairs, merged, first, data, error>>
    /\ UNCHANGED <<report, botVars>>

RoundTripNext == Merge \/ MergeAgain

RoundTripSpec == RoundTripInit /\ [][RoundTripNext]_vars

(***************************************************************************)
(* merge_paired_transfers on statements of three rows, where a leg can     *)
(* have two candidate partners.                                            *)
(***************************************************************************)
TripleDates == {0, 3, MaxGapSeconds + 1}
TripleRows(row) ==
    { Operation(t, c, a, "", d, row) :
        t \in TripleDates, c \in {"*1", "*2"}, a \in {-1, 1},
        d \in {"Mezhdu svoimi schetami", "Pyaterochka"} }

IsTripleStatement(rows) ==
    \E x \in TripleRows(1), y \in TripleRows(2), z \in TripleRows(3) : rows = <<x, y, z>>

TripleInit ==
    /\ IsTripleStatement(input)
    /\ config = MakeConfig(<<>>, <<>>, <<>>, <<>>, <<>>, <<>>)
    /\ operations = input
    /\ pairs = <<>>
    /\ merged = <<>>
    /\ first = <<>>
    /\ pc = "parsed"
    /\ data = config
    /\ error = ""
    /\ NoReportNoBot

TripleNext == Merge \/ MergeAgain

TripleSpec == TripleInit /\ [][TripleNext]_vars

(***************************************************************************)
(* The handlers of the Telegram bot (tg_bot/main.py).  A handler runs up   *)
(* to its next await in one step; handlers of different updates interleave *)
(* at the awaits.  A path in TEMP_DIR is the user id, the stem and the     *)
(* suffix of the file name.  What convert does with the file content is    *)
(* not followed here: it writes the output file or raises.                 *)
(***************************************************************************)
\* ALLOWED_USERS
AllowedUsers == {1, 2}

\* message.document.file_name
FileNames ==
    { [stem |-> "a", suffix |-> ".csv"],
      [stem |-> "b", suffix |-> ".CSV"],
      [stem |-> "notes", suffix |-> ".txt"] }

\* suffix.lower()
SuffixLower(suffix) ==
    CASE suffix = ".CSV" -> ".csv"
      [] OTHER -> suffix

\* TEMP_DIR / f"{message.from_user.id}_{message.document.file_name}"
LocalInputPath(u, name) == [user |-> u, stem |-> name.stem, suffix |-> name.suffix]

\* input_path.with_suffix(".xlsx")
WithSuffixXlsx(path) == [path EXCEPT !.suffix = ".xlsx"]

\* handle_document up to `await bot.get_file`: the two early returns
HandleDocument(u, name) ==
    /\ sent < MaxDocuments
    /\ documents[u] = Idle
    /\ sent' = sent + 1
    /\ documents' =
           IF AllowedUsers # {} /\ u \notin AllowedUsers THEN documents
           ELSE IF SuffixLower(name.suffix) # ".csv" THEN documents
           ELSE [documents EXCEPT ![u] = [pc |-> "download", path |-> LocalInputPath(u, name)]]
    /\ UNCHANGED <<temp_files, fsm, callbacks>>
    /\ UNCHANGED <<runVars, report>>

\* await bot.download_file(file_path, local_input_path)
DownloadFile(u) ==
    /\ documents[u].pc = "download"
    /\ temp_files' = temp_files \cup {documents[u].path}
    /\ documents' = [documents EXCEPT ![u].pc = "update_data"]
    /\ UNCHANGED <<fsm, callbacks, sent>>
    /\ UNCHANGED <<runVars, report>>

\* await state.update_data(input_path=str(local_input_path))
UpdateData(u) ==
    /\ documents[u].pc = "update_data"
    /\ fsm' = [fsm EXCEPT ![u].input_path = documents[u].path]
    /\ documents' = [documents EXCEPT ![u].pc = "set_state"]
    /\ UNCHANGED <<temp_files, callbacks, sent>>
    /\ UNCHANGED <<runVars, report>>

\* await state.set_state(ConversionStates.waiting_for_config)
SetState(u) ==
    /\ documents[u].pc = "set_state"
    /\ fsm' = [fsm EXCEPT ![u].state = "waiting_for_config"]
    /\ documents' = [documents EXCEPT ![u] = Idle]
    /\ UNCHANGED <<temp_files, callbacks, sent>>
    /\ UNCHANGED <<runVars, report>>

\* process_config_selection up to `await callback.message.edit_text`: the
\* two early returns clear the state
ProcessConfigSelection(u) ==
    /\ callbacks[u] = Idle
    /\ LET input_path == fsm[u].input_path
       IN  IF input_path = NoPath \/ input_path \notin temp_files
           THEN /\ fsm' = [fsm EXCEPT ![u] = ClearedState]
                /\ UNCHANGED callbacks
           ELSE /\ callbacks' = [callbacks EXCEPT ![u] =
                                    [pc |-> "convert", input_path |-> input_path,
                                     output_path |-> WithSuffixXlsx(input_path)]]
                /\ UNCHANGED fsm
    /\ UNCHANGED <<temp_files, documents, sent>>
    /\ UNCHANGED <<runVars, report>>

\* the try block: convert writes the output file and the document is sent,
\* or convert raises before writing, or sending raises after it
Convert(u) ==
    /\ callbacks[u].pc = "convert"
    /\ \E outcome \in {"sent", "convert_raised", "send_raised"} :
           temp_files' = IF outcome = "convert_raised" THEN temp_files
                         ELSE temp_files \cup {callbacks[u].output_path}
    /\ callbacks' = [callbacks EXCEPT ![u].pc = "finally"]
    /\ UNCHANGED <<fsm, documents, sent>>
    /\ UNCHANGED <<runVars, report>>

\* the finally block
Cleanup(u) ==
    /\ callbacks[u].pc = "finally"
    /\ temp_files' = temp_files \ {callbacks[u].input_path, callbacks[u].output_path}
    /\ fsm' = [fsm EXCEPT ![u] = ClearedState]
    /\ callbacks' = [callbacks EXCEPT ![u] = Idle]
    /\ UNCHANGED <<documents, sent>>
    /\ UNCHANGED <<runVars, report>>

BotInit ==
    /\ config = MakeConfig(<<>>, <<>>, <<>>, <<>>, <<>>, <<>>)
    /\ input = <<>>
    /\ operations = <<>>
    /\ pairs = <<>>
    /\ merged = <<>>
    /\ first = <<>>
    /\ pc = "parsed"
    /\ data = config
    /\ error = ""
    /\ NoReportNoBot

BotNext ==
    \E u \in Users :
        \/ \E name \in FileNames : HandleDocument(u, name)
        \/ DownloadFile(u)
        \/ UpdateData(u)
        \/ SetState(u)
        \/ ProcessConfigSelection(u)
        \/ Convert(u)
        \/ Cleanup(u)

BotSpec == BotInit /\ [][BotNext]_vars

(***************************************************************************)
(* Report (domain/models.py) and steps 5-6 of ConversionPipeline.run.      *)
(* Timestamps are naturals; None is a value outside them.  The category    *)
(* list is sorted(set(...)), which the set determines: it is kept as the   *)
(* set.                                                                    *)
(***************************************************************************)
\* Python's None, for a timestamp
None == -1

\* dates = [op.operation_date for op in self.operations if op.operation_date]
DefinedDates(ops) ==
    { ops[k].operation_date : k \in { n \in 1..Len(ops) : ops[n].operation_date # None } }

\* min(dates) and max(dates)
MinOf(dates) == CHOOSE d \in dates : \A e \in dates : d <= e
MaxOf(dates) == CHOOSE d \in dates : \A e \in dates : d >= e

\* PeriodOf taking the dates of the first and the last record
PeriodOf_FirstLast(ops) ==
    IF ops = <<>> \/ DefinedDates(ops) = {}
    THEN [period_start |-> None, period_end |-> None]
    ELSE [period_start |-> ops[1].operation_date,
          period_end |-> ops[Len(ops)].operation_date]

\* lines 48-52 of __post_init__
PeriodOf(ops) ==
    IF ops = <<>> \/ DefinedDates(ops) = {}
    THEN [period_start |-> None, period_end |-> None]
    ELSE [period_start |-> MinOf(DefinedDates(ops)),
          period_end |-> MaxOf(DefinedDates(ops))]

\* lines 54-58 of __post_init__: the loop from record k on
RECURSIVE TotalsOf(_, _, _, _)
TotalsOf(ops, k, income, expense) ==
    IF k > Len(ops) THEN [total_income |-> income, total_expense |-> expense]
    ELSE IF ops[k].operation_amount > 0
         THEN TotalsOf(ops, k + 1, income + ops[k].operation_amount, expense)
         ELSE TotalsOf(ops, k + 1, income, expense + ops[k].operation_amount)

\* Report(operations=..., categories=...)
Report(ops, categories) ==
    [built |-> TRUE, operations |-> ops, categories |-> categories,
     period_start |-> PeriodOf(ops).period_start,
     period_end |-> PeriodOf(ops).period_end,
     total_income |-> TotalsOf(ops, 1, 0, 0).total_income,
     total_expense |-> TotalsOf(ops, 1, 0, 0).total_expense]

\* steps 5-6 of run
BuildReport ==
    /\ pc = "classified"
    /\ report' = Report(operations,
                        { operations[k].category : k \in 1..Len(operations) } \ {""})
    /\ pc' = "reported"
    /\ UNCHANGED <<config, input, operations, pairs, merged, first, data, error>>
    /\ UNCHANGED botVars

\* the records a Report is built from directly
ReportDates == {None, 0, 1, 2}
ReportAmounts == {-1, 0, 2}

ReportInit ==
    /\ \E n \in 0..MaxReportRows :
           /\ operations \in [1..n -> { Operation(t, "*1", a, "", "Test", 1) :
                                          t \in ReportDates, a \in ReportAmounts }]
    /\ input = operations
    /\ config = MakeConfig(<<>>, <<>>, <<>>, <<>>, <<>>, <<>>)
    /\ pairs = <<>>
    /\ merged = <<>>
    /\ first = <<>>
    /\ pc = "classified"
    /\ data = config
    /\ error = ""
    /\ NoReportNoBot

ReportNext == BuildReport

ReportSpec == ReportInit /\ [][ReportNext]_vars

\* the pipeline on statements of two rows, with the report built at the end
RunInit ==
    /\ IsPairStatement(input)
    /\ config \in { MakeConfig(<<>>, <<>>, <<>>, <<>>, <<>>, <<>>),
                     MarkerConfig([t \in {"*1"} |-> "Nakopitelny schet"]) }
    /\ operations = input
    /\ pairs = <<>>
    /\ merged = <<>>
    /\ first = <<>>
    /\ pc = "parsed"
    /\ data = config
    /\ error = ""
    /\ NoReportNoBot

RunNext == Merge \/ Classify \/ BuildReport

RunSpec == RunInit /\ [][RunNext]_vars

(***************************************************************************)
(* The pipeline over Operation as domain/models.py declares it.  The       *)
(* dataclass declares the fifteen CSV columns and three categorization     *)
(* fields and no debit_account, credit_account, category, subcategory or   *)
(* comment: a constructor call with an undeclared keyword raises           *)
(* TypeError, and reading an attribute that was never set raises           *)
(* AttributeError.                                                         *)
(***************************************************************************)
\* the fields of the dataclass Operation
OperationFields ==
    { "operation_date", "payment_date", "card_number", "status",
      "operation_amount", "operation_currency", "payment_amount",
      "payment_currency", "cashback", "bank_category", "mcc", "description",
      "bonus_count", "investment_amount", "total_payment_amount",
      "auto_category", "manual_category", "final_category" }

\* the keywords of the call Operation(...) that builds a merged record
MergedOperationKeywords ==
    { "operation_date", "payment_date", "card_number", "status",
      "operation_amount", "operation_currency", "payment_amount",
      "payment_currency", "cashback", "bank_category", "mcc", "description",
      "bonus_count", "investment_amount", "total_payment_amount",
      "debit_account", "credit_account" }

\* the attributes apply_double_entry reads before it has written them
AttributesReadFirst == { "debit_account" }

\* merge_paired_transfers reaches the constructor call: some row finds a partner
FindsPair(ops) ==
    \E k \in 1..Len(MergePairedTransfers(ops).from) :
        Len(MergePairedTransfers(ops).from[k]) = 2

DeclaredInit ==
    /\ IsPairStatement(input)
    /\ config \in PairConfigs
    /\ operations = input
    /\ pairs = <<>>
    /\ merged = <<>>
    /\ first = <<>>
    /\ pc = "parsed"
    /\ data = config
    /\ error = ""
    /\ NoReportNoBot

\* Step 3 over the declared Operation
MergeDeclared ==
    /\ pc = "parsed"
    /\ IF FindsPair(operations) /\ ~(MergedOperationKeywords \subseteq OperationFields)
       THEN /\ error' = "TypeError"
            /\ pc' = "raised"
            /\ UNCHANGED <<operations, merged, pairs>>
       ELSE /\ LET result == MergePairedTransfers(operations)
               IN  /\ operations' = result.out
                   /\ merged' = result.out
                   /\ pairs' = result.from
            /\ pc' = "merged"
            /\ error' = error
    /\ UNCHANGED <<config, input, first, data>>
    /\ UNCHANGED <<report, botVars>>

\* Step 4 over the declared Operation
ClassifyDeclared ==
    /\ pc = "merged"
    /\ IF operations # <<>> /\ ~(AttributesReadFirst \subseteq OperationFields)
       THEN /\ error' = "AttributeError"
            /\ pc' = "raised"
            /\ UNCHANGED <<operations, first>>
       ELSE /\ operations' = ApplyDoubleEntry(config, operations)
            /\ first' = operations'
            /\ pc' = "classified"
            /\ error' = error
    /\ UNCHANGED <<config, input, pairs, merged, data>>
    /\ UNCHANGED <<report, botVars>>

DeclaredNext == MergeDeclared \/ ClassifyDeclared

DeclaredSpec == DeclaredInit /\ [][DeclaredNext]_vars

(***************************************************************************)
(* Properties.  `merged`, `pairs` and `first` are only meaningful once the *)
(* step that writes them has run.                                          *)
(***************************************************************************)
AfterMerge == pc # "parsed"
AfterClassify == pc \in {"classified", "reclassified"}

\* the entries of the merged list that were built from two input rows
MergedEntries == { k \in 1..Len(pairs) : Len(pairs[k]) = 2 }

\* the columns merge_paired_transfers has no rule for
CopiedFields == {"operation_date", "card_number", "bank_category", "description", "other"}

\* rows i < j of the input satisfy the pairing conditions of the specification
Eligible(i, j) ==
    /\ i < j
    /\ j - i <= Lookahead - 1
    /\ IsOwnTransfer(input[i].description)
    /\ IsOwnTransfer(input[j].description)
    /\ Abs(input[i].operation_amount) = Abs(input[j].operation_amount)
    /\ \/ input[i].operation_amount < 0 /\ input[j].operation_amount > 0
       \/ input[i].operation_amount > 0 /\ input[j].operation_amount < 0
    /\ Abs(input[i].operation_date - input[j].operation_date) <= MaxGapSeconds

\* row x was taken as the partner of a row before row i
ConsumedBefore(x, i) ==
    \E k \in MergedEntries : pairs[k][2] = x /\ pairs[k][1] < i

\* C1: a merged record has the absolute amount, debit = card of the positive
\* leg, credit = card of the negative leg, every other column from the earlier
\* leg, and it is the only record emitted for its two legs.
C1_MergedRecord ==
    AfterMerge =>
        \A k \in MergedEntries :
            LET i == pairs[k][1]
                j == pairs[k][2]
                positive == IF input[i].operation_amount > 0 THEN input[i] ELSE input[j]
                negative == IF input[i].operation_amount > 0 THEN input[j] ELSE input[i]
            IN  /\ i < j
                /\ positive.operation_amount > 0
                /\ negative.operation_amount < 0
                /\ merged[k].operation_amount = positive.operation_amount
                /\ merged[k].operation_amount = -negative.operation_amount
                /\ merged[k].debit_account = positive.card_number
                /\ merged[k].credit_account = negative.card_number
                /\ \A f \in CopiedFields : merged[k][f] = input[i][f]
                /\ \A m \in 1..Len(pairs) :
                       m # k => \A x \in 1..Len(pairs[m]) : pairs[m][x] \notin {i, j}

\* C1 witness: a merge whose earlier leg is the entering one, the two legs
\* differing in card, time and description
C1_Witness ==
    /\ pc = "merged"
    /\ \E k \in MergedEntries :
           /\ input[pairs[k][1]].operation_amount > 0
           /\ input[pairs[k][1]].card_number # input[pairs[k][2]].card_number
           /\ input[pairs[k][1]].operation_date # input[pairs[k][2]].operation_date
           /\ input[pairs[k][1]].description # input[pairs[k][2]].description

\* C2 (as stated): every eligible pair of rows i < j is replaced by exactly one
\* merged record carrying the absolute amount.
C2_EveryEligiblePairMerged ==
    AfterMerge =>
        \A i, j \in 1..Len(input) :
            Eligible(i, j) =>
                /\ Cardinality({ k \in MergedEntries : pairs[k] = <<i, j>> }) = 1
                /\ \A k \in MergedEntries :
                       pairs[k] = <<i, j>> =>
                           merged[k].operation_amount = Abs(input[i].operation_amount)

\* C2 (amended): an eligible pair i < j is replaced by exactly one merged record
\* carrying the absolute amount when row i was not consumed by an earlier
\* pairing and j is the first eligible row after i not so consumed; and the
\* output is shorter than the input by one for each merged pair.
C2_FirstEligiblePairMerged ==
    AfterMerge =>
        /\ \A i, j \in 1..Len(input) :
               ( /\ Eligible(i, j)
                 /\ ~ConsumedBefore(i, i)
                 /\ ~ConsumedBefore(j, i)
                 /\ \A m \in (i + 1)..(j - 1) : Eligible(i, m) => ConsumedBefore(m, i) )
               => /\ Cardinality({ k \in MergedEntries : pairs[k] = <<i, j>> }) = 1
                  /\ \A k \in MergedEntries :
                         pairs[k] = <<i, j>> =>
                             merged[k].operation_amount = Abs(input[i].operation_amount)
        /\ Len(merged) = Len(input) - Cardinality(MergedEntries)

\* C2 witness: a pair is merged while another eligible pair is left alone
\* because its partner row had already been consumed
C2_Witness ==
    /\ pc = "merged"
    /\ MergedEntries # {}
    /\ \E i, j \in 1..Len(input) : Eligible(i, j) /\ ConsumedBefore(j, i)

\* C3: two rows are merged only if both carry the marker, the partner is 1 to
\* 9 positions after the first row, no row is used by two pairings, the
\* amounts are equal in magnitude, opposite in sign and nonzero, and the
\* timestamps are at most 5 seconds apart; two rows exactly 5 s apart merge.
C3_MergeOnlyWhenEligible ==
    AfterMerge =>
        /\ \A k \in MergedEntries :
               LET i == pairs[k][1]
                   j == pairs[k][2]
               IN  /\ IsSubstring(TransferMarkerChars, LowerOf[input[i].description])
                   /\ IsSubstring(TransferMarkerChars, LowerOf[input[j].description])
                   /\ 1 <= j - i /\ j - i <= 9
                   /\ input[i].operation_amount + input[j].operation_amount = 0
                   /\ input[i].operation_amount # 0
                   /\ input[j].operation_date - input[i].operation_date \in -5..5
                   /\ \A m \in MergedEntries :
                          m # k => {pairs[m][1], pairs[m][2]} \cap {i, j} = {}
        /\ \A k \in 1..Len(pairs) :
               Len(pairs[k]) = 1 => merged[k] = input[pairs[k][1]]
        /\ ( /\ Len(input) = 2
             /\ Eligible(1, 2)
             /\ Abs(input[1].operation_date - input[2].operation_date) = 5 )
           => MergedEntries = {1}

\* C3 witness: a merge with the partner at the last position of the window,
\* in a statement that has a row one position further
C3_Witness ==
    /\ pc = "merged"
    /\ \E k \in MergedEntries :
           /\ pairs[k][2] - pairs[k][1] = 9
           /\ pairs[k][2] < Len(input)

(***************************************************************************)
(* Properties of apply_double_entry.  Entry k of `first` is entry k of     *)
(* `merged` after the first pass.                                          *)
(***************************************************************************)
\* the indices of the first entry of an iterated mapping whose key is found
\* in the description, case-insensitively (empty when no key is found)
FirstKeyFound(mapping, description) ==
    { n \in 1..Len(mapping) :
        /\ IsSubstring(LowerOf[mapping[n][1]], LowerOf[description])
        /\ \A m \in 1..(n - 1) : ~IsSubstring(LowerOf[mapping[m][1]], LowerOf[description]) }

\* value is what the first matching entry maps to, or "" when there is none
IsFirstMatchOrEmpty(mapping, description, value) ==
    IF FirstKeyFound(mapping, description) = {} THEN value = ""
    ELSE \E n \in FirstKeyFound(mapping, description) : value = mapping[n][2]

\* the record is a Transfer: marker phrase or a transfer-destination key
TransferKind(op) ==
    \/ IsSubstring(TransferMarkerChars, LowerOf[op.description])
    \/ FirstKeyFound(config.transfer_account_mapping, op.description) # {}
ExpenseKind(op) == ~TransferKind(op) /\ op.operation_amount < 0
IncomeKind(op) == ~TransferKind(op) /\ op.operation_amount > 0

\* name is the real account of the record
IsRealAccount(op, name) ==
    IF op.card_number \in DOMAIN config.account_mappings
    THEN name = config.account_mappings[op.card_number]
    ELSE IF op.card_number # "" THEN name = op.card_number
    ELSE name = config.settings.default_account

\* name is the token resolved through the account-alias mapping
IsAliasOf(token, name) ==
    \/ token \in DOMAIN config.account_mappings /\ name = config.account_mappings[token]
    \/ token \notin DOMAIN config.account_mappings /\ name = token

\* both accounts were populated before classification
PrePopulated(k) == merged[k].debit_account # "" /\ merged[k].credit_account # ""

\* C4: the category of an expense is, first hit wins, the value of the key
\* equal to the description, else of the first key found in the description,
\* else the bank-category entry, else the uncategorized label.
C4_CategoryPriority ==
    AfterClassify =>
        \A k \in 1..Len(first) :
            (~PrePopulated(k) /\ ExpenseKind(merged[k])) =>
                LET op == merged[k]
                    free == config.description_mapping
                    bank == config.bank_category_mapping
                    exact == { n \in 1..Len(free) : free[n][1] = op.description }
                    found == FirstKeyFound(free, op.description)
                IN  IF exact # {}
                    THEN \E n \in exact : first[k].category = free[n][2]
                    ELSE IF found # {}
                    THEN \E n \in found : first[k].category = free[n][2]
                    ELSE IF op.bank_category # "" /\ op.bank_category \in DOMAIN bank
                    THEN first[k].category = bank[op.bank_category].category
                    ELSE first[k].category = config.settings.uncategorized_label

\* C4 witness: an expense whose description equals the second free-text key,
\* contains the first one, and whose bank category is mapped as well
C4_Witness ==
    /\ pc = "classified"
    /\ \E k \in 1..Len(first) :
           /\ ExpenseKind(merged[k])
           /\ Len(config.description_mapping) = 2
           /\ config.description_mapping[2][1] = merged[k].description
           /\ 1 \in FirstKeyFound(config.description_mapping, merged[k].description)
           /\ merged[k].bank_category \in DOMAIN config.bank_category_mapping
           /\ first[k].category = config.description_mapping[2][2]

\* C5 (as stated): after classification every record that was not pre-merged
\* has its accounts assigned; a non-transfer record, whatever its amount, has
\* the service account on one leg and the real account on the other.
C5_EveryRecordAssigned ==
    AfterClassify =>
        \A k \in 1..Len(first) :
            ~PrePopulated(k) =>
                IF TransferKind(merged[k])
                THEN \/ IsRealAccount(merged[k], first[k].debit_account)
                     \/ IsRealAccount(merged[k], first[k].credit_account)
                ELSE \/ /\ first[k].debit_account = config.settings.service_accounts.expense
                        /\ IsRealAccount(merged[k], first[k].credit_account)
                     \/ /\ IsRealAccount(merged[k], first[k].debit_account)
                        /\ first[k].credit_account = config.settings.service_accounts.income

\* C6: an Expense gets debit = expense service account and credit = real
\* account; an Income gets debit = real account, credit = income service
\* account and an empty subcategory.
C6_ExpenseIncomeLegs ==
    AfterClassify =>
        \A k \in 1..Len(first) :
            ~PrePopulated(k) =>
                /\ ExpenseKind(merged[k]) =>
                       /\ first[k].debit_account = config.settings.service_accounts.expense
                       /\ IsRealAccount(merged[k], first[k].credit_account)
                /\ IncomeKind(merged[k]) =>
                       /\ IsRealAccount(merged[k], first[k].debit_account)
                       /\ first[k].credit_account = config.settings.service_accounts.income
                       /\ first[k].subcategory = ""

\* C6 witness: a classified expense whose card has an alias
C6_Witness ==
    /\ pc = "classified"
    /\ \E k \in 1..Len(first) :
           /\ ExpenseKind(merged[k])
           /\ merged[k].card_number \in DOMAIN config.account_mappings
           /\ first[k].credit_account = config.account_mappings[merged[k].card_number]
           /\ first[k].credit_account # merged[k].card_number

C9_PrePopulatedResolved ==
    AfterClassify =>
        \A k \in 1..Len(first) :
            PrePopulated(k) =>
                /\ IsAliasOf(merged[k].debit_account, first[k].debit_account)
                /\ IsAliasOf(merged[k].credit_account, first[k].credit_account)
                /\ first[k].category = ""
                /\ first[k].subcategory = ""
                /\ first[k].comment = ""
                /\ \A f \in CopiedFields \cup {"operation_amount"} :
                       first[k][f] = merged[k][f]

\* C9 witness: a merged record whose debit token has an alias and whose
\* credit token has none, in a configuration whose mappings match its
\* description
C9_Witness ==
    /\ pc = "classified"
    /\ config.description_mapping # <<>>
    /\ \E k \in 1..Len(first) :
           /\ PrePopulated(k)
           /\ merged[k].debit_account \in DOMAIN config.account_mappings
           /\ merged[k].credit_account \notin DOMAIN config.account_mappings
           /\ first[k].debit_account # merged[k].debit_account
           /\ first[k].credit_account = merged[k].credit_account

\* the five fields a classification pass writes
DoubleEntryFields == {"debit_account", "credit_account", "category", "subcategory", "comment"}

\* no alias is empty, and an alias that is itself a token maps to itself
AliasesAreFinal ==
    \A t \in DOMAIN config.account_mappings :
        LET name == config.account_mappings[t]
        IN  /\ name # ""
            /\ name \in DOMAIN config.account_mappings
               => config.account_mappings[name] = name

\* C10 (as stated): a second pass leaves the double-entry fields of a
\* pre-populated record as the first pass left them, for every alias mapping.
C10_SecondPassIdempotent ==
    pc = "reclassified" =>
        \A k \in 1..Len(first) :
            PrePopulated(k) =>
                \A f \in DoubleEntryFields : operations[k][f] = first[k][f]

\* C10 (amended): the same, for every alias mapping in which no alias is
\* empty and no alias is itself a token mapped to something else.
C10_SecondPassIdempotentFinalAliases ==
    (pc = "reclassified" /\ AliasesAreFinal) =>
        \A k \in 1..Len(first) :
            PrePopulated(k) =>
                \A f \in DoubleEntryFields : operations[k][f] = first[k][f]

\* C10 witness: after the second pass, a pre-populated record one of whose
\* accounts the first pass replaced by its alias
C10_Witness ==
    /\ pc = "reclassified"
    /\ AliasesAreFinal
    /\ \E k \in 1..Len(first) :
           /\ PrePopulated(k)
           /\ first[k].credit_account # merged[k].credit_account
           /\ operations[k].credit_account = first[k].credit_account

\* both accounts of the record are populated
BothPopulated(op) == op.debit_account # "" /\ op.credit_account # ""

\* C11 (as stated): after merge and classification, a record whose debit and
\* credit accounts are both populated stores a non-negative operation amount.
C11_PopulatedAmountAbsolute ==
    AfterClassify =>
        \A k \in 1..Len(first) :
            BothPopulated(first[k]) => first[k].operation_amount >= 0

\* C11 (amended): a record merged from a pair stores the absolute, positive
\* amount of its legs and keeps it through classification; every other record
\* keeps the signed amount it was parsed with.
C11_MergedAmountAbsolute ==
    AfterClassify =>
        \A k \in 1..Len(first) :
            IF k \in MergedEntries
            THEN /\ first[k].operation_amount > 0
                 /\ first[k].operation_amount = Abs(input[pairs[k][1]].operation_amount)
                 /\ first[k].operation_amount = Abs(input[pairs[k][2]].operation_amount)
            ELSE first[k].operation_amount = input[pairs[k][1]].operation_amount

\* C11 witness: a classified statement holding a merged record whose earlier
\* leg was the leaving one and an expense with both accounts populated
C11_Witness ==
    /\ pc = "classified"
    /\ \E k \in MergedEntries :
           /\ input[pairs[k][1]].operation_amount < 0
           /\ BothPopulated(first[k])
    /\ \E k \in 1..Len(first) :
           /\ k \notin MergedEntries
           /\ BothPopulated(first[k])
           /\ first[k].operation_amount < 0

\* the category of the record comes from the bank-category tier
FromBankTier(op) ==
    /\ \A n \in 1..Len(config.description_mapping) :
           config.description_mapping[n][1] # op.description
    /\ FirstKeyFound(config.description_mapping, op.description) = {}
    /\ op.bank_category # ""
    /\ op.bank_category \in DOMAIN config.bank_category_mapping

\* C12: the subcategory of an expense is the subcategory of the bank-category
\* entry when the category came from that entry and the entry carries a
\* non-empty one, whatever the subcategory mapping holds; otherwise it is the
\* value of the first subcategory-mapping key found in the description, or "".
C12_Subcategory ==
    AfterClassify =>
        \A k \in 1..Len(first) :
            (~PrePopulated(k) /\ ExpenseKind(merged[k])) =>
                LET op == merged[k]
                IN  IF /\ FromBankTier(op)
                       /\ config.bank_category_mapping[op.bank_category].subcategory # ""
                    THEN first[k].subcategory =
                             config.bank_category_mapping[op.bank_category].subcategory
                    ELSE IsFirstMatchOrEmpty(config.subcategory_mappings,
                                             op.description, first[k].subcategory)

\* C12 witness: an expense that takes the subcategory of its bank-category
\* entry although a key of the subcategory mapping is found in its description
C12_Witness ==
    /\ pc = "classified"
    /\ \E k \in 1..Len(first) :
           /\ ExpenseKind(merged[k])
           /\ FromBankTier(merged[k])
           /\ FirstKeyFound(config.subcategory_mappings, merged[k].description) # {}
           /\ first[k].subcategory # ""
           /\ first[k].subcategory =
                  config.bank_category_mapping[merged[k].bank_category].subcategory

\* the category of the record is resolved by the fallback tier
FallbackTier(op) ==
    /\ \A n \in 1..Len(config.description_mapping) :
           config.description_mapping[n][1] # op.description
    /\ FirstKeyFound(config.description_mapping, op.description) = {}
    /\ ~(op.bank_category # "" /\ op.bank_category \in DOMAIN config.bank_category_mapping)

\* C13 (as stated): an expense resolved by the fallback tier ends with the
\* uncategorized label as category and the empty string as subcategory.
C13_FallbackEmptySubcategory ==
    AfterClassify =>
        \A k \in 1..Len(first) :
            (~PrePopulated(k) /\ ExpenseKind(merged[k]) /\ FallbackTier(merged[k])) =>
                /\ first[k].category = config.settings.uncategorized_label
                /\ first[k].subcategory = ""

\* C13 (amended): an expense resolved by the fallback tier ends with the
\* uncategorized label as category; its subcategory is the value of the first
\* subcategory-mapping key found in the description, "" when none is found.
C13_FallbackLabel ==
    AfterClassify =>
        \A k \in 1..Len(first) :
            (~PrePopulated(k) /\ ExpenseKind(merged[k]) /\ FallbackTier(merged[k])) =>
                /\ first[k].category = config.settings.uncategorized_label
                /\ IsFirstMatchOrEmpty(config.subcategory_mappings,
                                       merged[k].description, first[k].subcategory)

\* C13 witness: a fallback expense in whose description a key of the
\* subcategory mapping is found
C13_Witness ==
    /\ pc = "classified"
    /\ \E k \in 1..Len(first) :
           /\ ExpenseKind(merged[k])
           /\ FallbackTier(merged[k])
           /\ first[k].category = config.settings.uncategorized_label
           /\ first[k].subcategory # ""

\* the categories the mapping values of the configuration data name
DescriptionCategories == { data.description_mapping[n][2] : n \in 1..Len(data.description_mapping) }
BankCategoryCategories ==
    { data.bank_category_mapping[b].category : b \in DOMAIN data.bank_category_mapping }
IncomeCategories ==
    { data.income_description_mapping[n][2] : n \in 1..Len(data.income_description_mapping) }

\* the configuration was rejected and nothing was processed
RejectedBeforeProcessing ==
    /\ pc = "config_error"
    /\ error = "ValueError"
    /\ operations = <<>> /\ merged = <<>> /\ first = <<>>

\* C14 (as stated): building a Config fails with a ValueError before any
\* record is processed when the description mapping, the bank-category
\* mapping or the income-source mapping maps to an unlisted category; a
\* loaded Config references only listed categories.
C14_EveryMappingValidated ==
    pc # "loading" =>
        LET referenced == DescriptionCategories \cup BankCategoryCategories \cup IncomeCategories
        IN  /\ ~(referenced \subseteq Range(data.categories)) => RejectedBeforeProcessing
            /\ pc # "config_error" => referenced \subseteq Range(config.categories)

\* C14 (amended): the same for the description mapping and the bank-category
\* mapping (string or structured); the income-source mapping is not checked.
C14_CategoryMappingsValidated ==
    pc # "loading" =>
        LET referenced == DescriptionCategories \cup BankCategoryCategories
        IN  /\ ~(referenced \subseteq Range(data.categories)) => RejectedBeforeProcessing
            /\ pc = "config_error" => RejectedBeforeProcessing
            /\ pc # "config_error" =>
                   /\ config = data
                   /\ referenced \subseteq Range(config.categories)

\* C14 witness: a configuration rejected only for the category of a
\* structured bank-category entry
C14_Witness ==
    /\ RejectedBeforeProcessing
    /\ data.categories # <<>>
    /\ DescriptionCategories \subseteq Range(data.categories)
    /\ \E b \in DOMAIN data.bank_category_mapping :
           /\ ~data.bank_category_mapping[b].is_str
           /\ data.bank_category_mapping[b].category \notin Range(data.categories)

\* C15 (as stated): merge_paired_transfers and apply_double_entry complete
\* without raising for every record sequence and configuration, an unmatched
\* transfer or an unmapped expense or income ending as a normal result.
C15_NeverRaises ==
    /\ error = ""
    /\ pc # "raised"

\* row i of the input is marked and no row of its window is a partner that an
\* earlier pairing has left
NoPartnerInWindow(i) ==
    /\ IsSubstring(TransferMarkerChars, LowerOf[input[i].description])
    /\ \A j \in (i + 1)..Len(input) : ~(Eligible(i, j) /\ ~ConsumedBefore(j, i))

\* row i is emitted unchanged and then classified as an unmatched Transfer
PassedThroughAsTransfer(i) ==
    \E k \in 1..Len(pairs) :
        /\ pairs[k] = <<i>>
        /\ merged[k] = input[i]
        /\ merged[k].debit_account = "" /\ merged[k].credit_account = ""
        /\ IF merged[k].operation_amount < 0
           THEN /\ IsFirstMatchOrEmpty(config.transfer_account_mapping,
                                       merged[k].description, first[k].debit_account)
                /\ IsRealAccount(merged[k], first[k].credit_account)
           ELSE /\ IsRealAccount(merged[k], first[k].debit_account)
                /\ IsFirstMatchOrEmpty(config.transfer_account_mapping,
                                       merged[k].description, first[k].credit_account)
        /\ first[k].category = "" /\ first[k].subcategory = ""
        /\ \A f \in CopiedFields \cup {"operation_amount"} : first[k][f] = input[i][f]

\* C16 (as stated): a marked row with no eligible partner in its window is
\* emitted unchanged by the merger and classified as an unmatched Transfer.
C16_NoPartnerPassesThrough ==
    AfterClassify =>
        \A i \in 1..Len(input) : NoPartnerInWindow(i) => PassedThroughAsTransfer(i)

\* C16 (amended): the same for a marked row that was not itself consumed as
\* the partner of an earlier row.
C16_UnconsumedNoPartnerPassesThrough ==
    AfterClassify =>
        \A i \in 1..Len(input) :
            (NoPartnerInWindow(i) /\ ~ConsumedBefore(i, i)) => PassedThroughAsTransfer(i)

\* C16 witness: a marked row left alone in a statement where a pair was merged
C16_Witness ==
    /\ pc = "classified"
    /\ MergedEntries # {}
    /\ \E i \in 1..Len(input) :
           /\ NoPartnerInWindow(i)
           /\ ~ConsumedBefore(i, i)
           /\ PassedThroughAsTransfer(i)

\* the places <<k, x>> of the output bookkeeping where input row i appears
PlacesOf(i) ==
    { kx \in (1..Len(pairs)) \X {1, 2} :
        kx[2] <= Len(pairs[kx[1]]) /\ pairs[kx[1]][kx[2]] = i }

\* C17: the output of merge_paired_transfers is shorter than the input by the
\* number of merged pairs, hence never longer, and every input row appears in
\* at most one output record: as itself, or as one leg of one merged record.
C17_LengthAndSingleUse ==
    AfterMerge =>
        /\ Len(merged) = Len(input) - Cardinality(MergedEntries)
        /\ Len(merged) <= Len(input)
        /\ Len(pairs) = Len(merged)
        /\ \A i \in 1..Len(input) : Cardinality(PlacesOf(i)) <= 1
        /\ \A k \in 1..Len(pairs) :
               /\ \A x \in 1..Len(pairs[k]) : pairs[k][x] \in 1..Len(input)
               /\ IF Len(pairs[k]) = 1
                  THEN merged[k] = input[pairs[k][1]]
                  ELSE /\ Len(pairs[k]) = 2
                       /\ pairs[k][1] # pairs[k][2]
                       /\ merged[k].other = input[pairs[k][1]].other
                       /\ {merged[k].debit_account, merged[k].credit_account} =
                              {input[pairs[k][1]].card_number, input[pairs[k][2]].card_number}

\* C17 witness: a merge of two rows that are not adjacent, in a statement that
\* holds a third marked row between them
C17_Witness ==
    /\ pc = "merged"
    /\ Len(merged) < Len(input)
    /\ \E k \in MergedEntries :
           \E m \in (pairs[k][1] + 1)..(pairs[k][2] - 1) :
               IsOwnTransfer(input[m].description)

\* C18: the output of merge_paired_transfers keeps the input order: its
\* records follow one another by increasing CSV row, a record that is not
\* merged is the input row itself, a merged record stands for its earlier leg
\* and neither leg appears in the output as a record of its own.
C18_OrderKept ==
    AfterMerge =>
        /\ \A k, m \in 1..Len(merged) :
               k < m => /\ merged[k].other < merged[m].other
                        /\ pairs[k][1] < pairs[m][1]
        /\ \A k \in 1..Len(merged) :
               /\ merged[k].other = input[pairs[k][1]].other
               /\ k \notin MergedEntries => merged[k] = input[pairs[k][1]]
               /\ k \in MergedEntries =>
                      /\ pairs[k][1] < pairs[k][2]
                      /\ \A m \in 1..Len(merged) :
                             /\ merged[m].other # input[pairs[k][2]].other
                             /\ m # k => merged[m].other # input[pairs[k][1]].other
                             /\ pairs[m] # <<pairs[k][1]>>
                             /\ pairs[m] # <<pairs[k][2]>>

\* C18 witness: a merged record with rows before it, between its legs and
\* after its later leg
C18_Witness ==
    /\ pc = "merged"
    /\ \E k \in MergedEntries :
           /\ 1 < k /\ k < Len(merged)
           /\ pairs[k + 1][1] < pairs[k][2]
           /\ pairs[Len(pairs)][1] > pairs[k][2]

\* the two service accounts of the configuration
ServiceAccountNames ==
    { config.settings.service_accounts.income, config.settings.service_accounts.expense }

\* the classification ran on what the merger returned
ClassifiedAfterMerge ==
    /\ pc = "parsed" => merged = <<>> /\ pairs = <<>> /\ first = <<>>
    /\ pc = "merged" => first = <<>> /\ operations = merged /\ Len(pairs) = Len(merged)
    /\ AfterClassify =>
           /\ Len(pairs) = Len(first)
           /\ Len(merged) = Len(first)
           /\ Len(first) = Len(input) - Cardinality(MergedEntries)
           /\ \A k \in 1..Len(first) : first[k].other = merged[k].other

\* C19 (as stated): the merge runs before the classification, and a record
\* the merger emitted with both accounts populated ends with empty category
\* and subcategory and no service account on either leg, whatever the
\* mappings contain.
C19_MergedNeverServiceAccount ==
    /\ ClassifiedAfterMerge
    /\ AfterClassify =>
           \A k \in 1..Len(first) :
               PrePopulated(k) =>
                   /\ first[k].category = ""
                   /\ first[k].subcategory = ""
                   /\ first[k].debit_account \notin ServiceAccountNames
                   /\ first[k].credit_account \notin ServiceAccountNames

\* C19 (amended): the same, each leg being the merger's card token resolved
\* through the alias mapping alone: a leg names a service account only when
\* the alias mapping maps its token to that name (or the token is that name).
C19_MergedBypassesRules ==
    /\ ClassifiedAfterMerge
    /\ AfterClassify =>
           \A k \in 1..Len(first) :
               PrePopulated(k) =>
                   /\ first[k].category = ""
                   /\ first[k].subcategory = ""
                   /\ \A leg \in {"debit_account", "credit_account"} :
                          /\ IsAliasOf(merged[k][leg], first[k][leg])
                          /\ first[k][leg] \in ServiceAccountNames =>
                                 \/ merged[k][leg] = first[k][leg]
                                 \/ /\ merged[k][leg] \in DOMAIN config.account_mappings
                                    /\ config.account_mappings[merged[k][leg]] = first[k][leg]

\* C19 witness: a merged record classified under a configuration whose
\* description, subcategory and income mappings all have a key found in its
\* description
C19_Witness ==
    /\ pc = "classified"
    /\ \E k \in MergedEntries :
           /\ PrePopulated(k)
           /\ FirstKeyFound(config.description_mapping, merged[k].description) # {}
           /\ FirstKeyFound(config.subcategory_mappings, merged[k].description) # {}
           /\ FirstKeyFound(config.income_description_mapping, merged[k].description) # {}
           /\ first[k].category = ""
           /\ first[k].debit_account \notin ServiceAccountNames
           /\ first[k].credit_account \notin ServiceAccountNames

\* two records of the merger's output still satisfy the pairing conditions
OutputHasPair ==
    \E i, j \in 1..Len(merged) :
        /\ i < j
        /\ j - i <= 9
        /\ IsSubstring(TransferMarkerChars, LowerOf[merged[i].description])
        /\ IsSubstring(TransferMarkerChars, LowerOf[merged[j].description])
        /\ merged[i].operation_amount + merged[j].operation_amount = 0
        /\ merged[i].operation_amount # 0
        /\ merged[j].operation_date - merged[i].operation_date \in -5..5

\* C20: when the output of merge_paired_transfers holds no remaining transfer
\* pair, merging it again returns the same records in the same order.
C20_RoundTripNoOp ==
    (pc = "remerged" /\ ~OutputHasPair) =>
        /\ Len(operations) = Len(merged)
        /\ \A k \in 1..Len(merged) : operations[k] = merged[k]

\* C20 witness: a second merge of an output that holds a merged record and a
\* marked row left without partner
C20_Witness ==
    /\ pc = "remerged"
    /\ ~OutputHasPair
    /\ operations = merged
    /\ \E k \in MergedEntries :
           \E m \in 1..Len(pairs) :
               /\ m \notin MergedEntries
               /\ IsOwnTransfer(merged[m].description)
               /\ merged[m].operation_amount # 0

\* no account name or transfer destination of the configuration, and no card
\* token of the record, is the name of a service account
NamesArePlain(op) ==
    /\ op.card_number \notin ServiceAccountNames
    /\ \A t \in DOMAIN config.account_mappings :
           config.account_mappings[t] \notin ServiceAccountNames
    /\ \A n \in 1..Len(config.transfer_account_mapping) :
           config.transfer_account_mapping[n][2] \notin ServiceAccountNames

RealAccountLeg(op) ==
    IF op.operation_amount < 0 THEN "credit_account" ELSE "debit_account"

\* C22: the real account of a record is the alias of its source token when
\* the token is a key of the account mapping, else the token itself when it
\* is not empty, else the default account name.
C22_RealAccountName ==
    AfterClassify =>
        \A k \in 1..Len(first) :
            (~PrePopulated(k) /\ (TransferKind(merged[k]) \/ merged[k].operation_amount # 0)) =>
                LET op == merged[k]
                    name == first[k][RealAccountLeg(op)]
                IN  /\ op.card_number \in DOMAIN config.account_mappings =>
                           name = config.account_mappings[op.card_number]
                    /\ (op.card_number \notin DOMAIN config.account_mappings
                           /\ op.card_number # "") => name = op.card_number
                    /\ (op.card_number \notin DOMAIN config.account_mappings
                           /\ op.card_number = "") => name = config.settings.default_account

\* C22 witness: a record with an unmapped, non-empty token under a
\* configuration that maps another token
C22_Witness ==
    /\ pc = "classified"
    /\ DOMAIN config.account_mappings # {}
    /\ \E k \in 1..Len(first) :
           /\ merged[k].card_number # ""
           /\ merged[k].card_number \notin DOMAIN config.account_mappings
           /\ merged[k].operation_amount > 0
           /\ first[k].debit_account = merged[k].card_number

\* C23: a Report of no records has no period; a Report of one or more
\* records has as period_start the least and as period_end the greatest
\* operation timestamp of the records that have one, so start <= end.
C23_ReportPeriod ==
    pc = "reported" =>
        LET defined == { k \in 1..Len(report.operations) :
                           report.operations[k].operation_date # None }
        IN  /\ report.operations = operations
            /\ Len(operations) = 0 =>
                   report.period_start = None /\ report.period_end = None
            /\ defined # {} =>
                   /\ \E k \in defined : report.period_start = operations[k].operation_date
                   /\ \E k \in defined : report.period_end = operations[k].operation_date
                   /\ \A k \in defined :
                          /\ report.period_start <= operations[k].operation_date
                          /\ operations[k].operation_date <= report.period_end
                   /\ report.period_start <= report.period_end

\* C23 witness: a Report of records out of time order, one of them without
\* timestamp
C23_Witness ==
    /\ pc = "reported"
    /\ Len(operations) = 3
    /\ operations[2].operation_date = None
    /\ operations[1].operation_date # None
    /\ operations[3].operation_date # None
    /\ operations[1].operation_date > operations[3].operation_date
    /\ report.period_start = operations[3].operation_date
    /\ report.period_end = operations[1].operation_date

\* C24: the partner of a merged leg is the eligible, not yet consumed row of
\* smallest index in its window; a later candidate is never taken instead.
C24_EarliestIndexWins ==
    AfterMerge =>
        \A k \in MergedEntries :
            LET i == pairs[k][1]
                j == pairs[k][2]
            IN  /\ Eligible(i, j)
                /\ \A x \in (i + 1)..(j - 1) :
                       ~ (Eligible(i, x) /\ ~ ConsumedBefore(x, i))

\* C24 witness: the first row merged with the second although the third is
\* eligible too and closer in time
C24_Witness ==
    /\ pc = "merged"
    /\ Len(input) = 3
    /\ \E k \in MergedEntries : pairs[k] = <<1, 2>>
    /\ Eligible(1, 3)
    /\ Abs(input[3].operation_date - input[1].operation_date)
         < Abs(input[2].operation_date - input[1].operation_date)

\* name is the account of a leg with the given card token: the token resolved
\* through the alias mapping, or the default account for an empty token
IsLegAccount(token, name) ==
    \/ IsAliasOf(token, name)
    \/ token = "" /\ token \notin DOMAIN config.account_mappings
                  /\ name = config.settings.default_account

\* C25: for every merged pair, after classification the credit account is
\* the account of the negative leg and the debit account that of the positive
\* leg; the leaving leg's account is never the debit account, an empty card
\* token on one leg included.
C25_MergedLegsKeepDirection ==
    AfterClassify =>
        \A k \in MergedEntries :
            LET i == pairs[k][1]
                j == pairs[k][2]
                positive == IF input[i].operation_amount > 0 THEN input[i] ELSE input[j]
                negative == IF input[i].operation_amount > 0 THEN input[j] ELSE input[i]
            IN  /\ IsLegAccount(negative.card_number, first[k].credit_account)
                /\ IsLegAccount(positive.card_number, first[k].debit_account)
                /\ (negative.card_number # "" /\ ~ IsLegAccount(positive.card_number,
                        ResolveAccountName(config, negative.card_number)))
                       => first[k].debit_account
                            # ResolveAccountName(config, negative.card_number)

\* C26: merge_paired_transfers applied to its own output returns the same
\* records in the same order, for every input.
C26_MergeIdempotent ==
    pc = "remerged" =>
        /\ Len(operations) = Len(merged)
        /\ \A k \in 1..Len(merged) : operations[k] = merged[k]

\* C27: a second pass of apply_double_entry leaves the debit, credit,
\* category and subcategory of every expense, income or unmerged-transfer
\* record as the first pass set them.
C27_SecondPassKeepsUnmerged ==
    pc = "reclassified" =>
        \A k \in 1..Len(first) :
            (~ PrePopulated(k)
             /\ (ExpenseKind(merged[k]) \/ IncomeKind(merged[k]) \/ TransferKind(merged[k])))
            => \A f \in {"debit_account", "credit_account", "category", "subcategory"} :
                   operations[k][f] = first[k][f]

\* the input rows the merger passed through unmerged
PassedThrough == { pairs[k][1] : k \in { n \in 1..Len(pairs) : Len(pairs[n]) = 1 } }

\* C28: no two records that are both passed through unmerged formed an
\* eligible pair in the input (both marked, equal magnitude and opposite
\* sign, at most 5 seconds and at most 9 positions apart).
C28_NoEligiblePairLeft ==
    AfterMerge =>
        \A i, j \in PassedThrough : ~ Eligible(i, j)

\* C28 witness: two marked legs of opposite sign and equal magnitude are both
\* passed through, being too far apart in time or in position
C28_Witness ==
    /\ pc = "merged"
    /\ \E i, j \in PassedThrough :
           /\ i < j
           /\ IsOwnTransfer(input[i].description)
           /\ IsOwnTransfer(input[j].description)
           /\ input[i].operation_amount + input[j].operation_amount = 0
           /\ input[i].operation_amount # 0
           /\ j - i = Lookahead

\* the sum of the amounts of the records of ops, from index k on, whose index
\* is in S
RECURSIVE AmountSum(_, _, _)
AmountSum(ops, S, k) ==
    IF k > Len(ops) THEN 0
    ELSE (IF k \in S THEN ops[k].operation_amount ELSE 0) + AmountSum(ops, S, k + 1)

\* C29: total_income of the Report over the classified output is the sum of
\* the Income records only, and total_expense the sum of the Expense records
\* only: an own-account transfer, merged or an unmatched leg, adds to neither.
C29_TotalsByKind ==
    pc = "reported" =>
        /\ report.total_income =
               AmountSum(operations,
                         { k \in 1..Len(operations) : IncomeKind(operations[k]) }, 1)
        /\ report.total_expense =
               AmountSum(operations,
                         { k \in 1..Len(operations) : ExpenseKind(operations[k]) }, 1)

\* the files in the temp directory that belong to user u
FilesOf(files, u) == { f \in files : f.user = u }

\* C30: when a config-selection callback of a user finishes after the
\* conversion succeeded or failed, no temporary file of that user is left in
\* the temp directory and the user's FSM state is cleared, several documents
\* sent before the choice included.  Stated for the callbacks during which no
\* document of the user was in handling and the stored path did not change.
C30_CallbackLeavesNothing ==
    [][ \A u \in Users :
          (/\ callbacks[u].pc = "finally" /\ callbacks'[u] = Idle
           /\ documents[u] = Idle
           /\ fsm[u].input_path = callbacks[u].input_path) =>
              /\ FilesOf(temp_files', u) = {}
              /\ fsm'[u] = ClearedState ]_vars

====
